---- MODULE Spec2Model ----
(***************************************************************************)
(* Model of src/app.py (dash_sli): the SLI fox-rabies model ode_sys, the   *)
(* Dash callback gera_grafico that integrates it with scipy's odeint and   *)
(* packages three plotly traces, and the Flask server that dispatches the  *)
(* callback for every change of a slider.                                  *)
(*                                                                         *)
(* Numbers are exact rationals <<numerator, denominator>> in lowest terms  *)
(* (denominator > 0): the slider values (0.1, 0.5, 2.5 ...) are not        *)
(* integers and ode_sys divides by K.  Floating-point rounding is not      *)
(* modelled.                                                               *)
(***************************************************************************)
EXTENDS Integers, Sequences, FiniteSets, TLC

(***************************************************************************)
(* Bounds of the model.                                                    *)
(***************************************************************************)
\* number of points of the time grid (10000 in the source, line 181)
t_nsamples == 3
\* number of request threads of the server that can be busy at once
MaxHandlers == 2
\* number of callback requests the browser sends in one behaviour
MaxTriggers == 2

(***************************************************************************)
(* Rational arithmetic: the float operators +, -, *, / of ode_sys.         *)
(***************************************************************************)
Abs(x) == IF x < 0 THEN -x ELSE x

RECURSIVE GCD(_, _)
GCD(x, y) == IF y = 0 THEN x ELSE GCD(y, x % y)

Rat(n, d) ==
    LET g == GCD(Abs(n), Abs(d))
        sgn == IF d < 0 THEN -1 ELSE 1
    IN  <<sgn * (n \div g), sgn * (d \div g)>>

R(n) == <<n, 1>>

\* sums over the least common denominator and products with the common
\* factors cancelled first, to keep the intermediate integers small
RAdd(x, y) ==
    LET g == GCD(x[2], y[2])
    IN  Rat(x[1] * (y[2] \div g) + y[1] * (x[2] \div g), (x[2] \div g) * y[2])

RNeg(x) == <<-x[1], x[2]>>

RSub(x, y) == RAdd(x, RNeg(y))

RMul(x, y) ==
    LET u == Rat(x[1], y[2])
        v == Rat(y[1], x[2])
    IN  <<u[1] * v[1], u[2] * v[2]>>

RDiv(x, y) == RMul(x, Rat(y[2], y[1]))

RLt(x, y) == x[1] * y[2] < y[1] * x[2]

(***************************************************************************)
(* ode_sys (lines 161-166).  The state is unpacked positionally as         *)
(* s, l, i.  The local called di_dt holds the latent equation and the one  *)
(* called dl_dt the infectious equation; they are returned in the order    *)
(* [ds_dt, di_dt, dl_dt].                                                  *)
(***************************************************************************)
ode_sys_named_order(state, t, a, beta, mu, alpha, sigma, K) ==
    LET s == state[1]
        l == state[2]
        i == state[3]
        ds_dt == RSub(RSub(RMul(RSub(a, mu), s),
                           RMul(RMul(RDiv(RSub(a, mu), K), s), RAdd(RAdd(s, i), l))),
                      RMul(RMul(beta, s), i))
        di_dt == RSub(RMul(RMul(beta, s), i),
                      RMul(RAdd(RAdd(sigma, mu),
                                RMul(RDiv(RSub(a, mu), K), RAdd(RAdd(s, l), i))), l))
        dl_dt == RSub(RMul(sigma, l),
                      RMul(RAdd(RAdd(alpha, mu),
                                RMul(RDiv(RSub(a, mu), K), RAdd(RAdd(s, l), i))), i))
    IN  <<ds_dt, dl_dt, di_dt>>

ode_sys(state, t, a, beta, mu, alpha, sigma, K) ==
    LET s == state[1]
        l == state[2]
        i == state[3]
        ds_dt == RSub(RSub(RMul(RSub(a, mu), s),
                           RMul(RMul(RDiv(RSub(a, mu), K), s), RAdd(RAdd(s, i), l))),
                      RMul(RMul(beta, s), i))
        di_dt == RSub(RMul(RMul(beta, s), i),
                      RMul(RAdd(RAdd(sigma, mu),
                                RMul(RDiv(RSub(a, mu), K), RAdd(RAdd(s, l), i))), l))
        dl_dt == RSub(RMul(sigma, l),
                      RMul(RAdd(RAdd(alpha, mu),
                                RMul(RDiv(RSub(a, mu), K), RAdd(RAdd(s, l), i))), i))
    IN  <<ds_dt, di_dt, dl_dt>>

\* func(y, t, *args) as odeint calls it with args = (a, beta, mu, alpha, sigma, K)
CallFunc(y, t, args) ==
    ode_sys(y, t, args[1], args[2], args[3], args[4], args[5], args[6])

(***************************************************************************)
(* The nine sliders (lines 89, 96, 103, 118, 125, 132, 139, 146, 153).     *)
(***************************************************************************)
Sliders ==
    [s_init |-> [min |-> <<1, 10>>,  max |-> R(5),     value |-> <<5, 2>>],
     l_init |-> [min |-> R(0),       max |-> <<1, 5>>,  value |-> <<1, 10>>],
     i_init |-> [min |-> <<1, 100>>, max |-> <<1, 5>>,  value |-> <<1, 10>>],
     a      |-> [min |-> <<1, 2>>,   max |-> R(3),     value |-> R(1)],
     beta   |-> [min |-> R(1),       max |-> R(150),   value |-> R(77)],
     mu     |-> [min |-> <<1, 10>>,  max |-> <<9, 10>>, value |-> <<1, 2>>],
     alpha  |-> [min |-> R(1),       max |-> R(150),   value |-> R(73)],
     sigma  |-> [min |-> R(1),       max |-> R(25),    value |-> R(13)],
     K      |-> [min |-> <<1, 10>>,  max |-> R(10),    value |-> R(2)]]

SliderIds == DOMAIN Sliders

\* the positions of a slider that the model visits: both ends and the default
SliderValues(id) == {Sliders[id].min, Sliders[id].value, Sliders[id].max}

Defaults == [id \in SliderIds |-> Sliders[id].value]

\* every slider at one end of its range
Corners == [SliderIds -> {"min", "max"}]

CornerControls(c) == [id \in SliderIds |-> Sliders[id][c[id]]]

(***************************************************************************)
(* The callback's Inputs (lines 169-177) and the parameters of             *)
(* gera_grafico (line 178).  Dash passes the Input values positionally,    *)
(* so the parameter called i_init receives the l_init slider and the       *)
(* parameter called l_init receives the i_init slider.                     *)
(***************************************************************************)
InputIds == <<"s_init", "l_init", "i_init", "a", "beta", "mu", "alpha", "sigma", "K">>

gera_grafico_params_in_input_order ==
    <<"s_init", "l_init", "i_init", "a", "beta", "mu", "alpha", "sigma", "K">>

gera_grafico_params ==
    <<"s_init", "i_init", "l_init", "a", "beta", "mu", "alpha", "sigma", "K">>

\* the values the browser posts: one per Input, in the order of the Inputs
Request(ctrl) == [k \in 1..Len(InputIds) |-> ctrl[InputIds[k]]]

\* gera_grafico(*request): the local variables after the call binds them
BindParams(req) ==
    [p \in {gera_grafico_params[k] : k \in 1..Len(gera_grafico_params)} |->
        req[CHOOSE k \in 1..Len(gera_grafico_params) : gera_grafico_params[k] = p]]

(***************************************************************************)
(* Lines 179-182: the time grid.                                           *)
(***************************************************************************)
t_begin == R(0)

t_end == R(70)

\* a grid without its end point (numpy's endpoint=False)
linspace_open(start, stop, num) ==
    [k \in 1..num |-> RAdd(start, RMul(R(k - 1), RDiv(RSub(stop, start), R(num))))]

\* numpy.linspace(start, stop, num): num evenly spaced points, both ends included
linspace(start, stop, num) ==
    [k \in 1..num |-> RAdd(start, RMul(R(k - 1), RDiv(RSub(stop, start), R(num - 1))))]

(***************************************************************************)
(* Lines 183-186: the arguments of the odeint call.                        *)
(***************************************************************************)
InitialState(loc) == <<loc.s_init, loc.i_init, loc.l_init>>

OdeintArgs_mu_beta(loc) == <<loc.a, loc.mu, loc.beta, loc.alpha, loc.sigma, loc.K>>

OdeintArgs(loc) == <<loc.a, loc.beta, loc.mu, loc.alpha, loc.sigma, loc.K>>

(***************************************************************************)
(* scipy.integrate.odeint as gera_grafico uses it (no full_output, default *)
(* tolerances and step budget).  It returns an array with one row per grid *)
(* point and one column per state component; row 1 is y0.  The resolved    *)
(* rows are abstracted to first order:  y0 + (t - t0) * func(y0, t0).      *)
(*                                                                         *)
(* When LSODA cannot reach the end of the grid, odeint only issues an      *)
(* ODEintWarning and still returns the array; the rows it did not reach    *)
(* are uninitialised memory.  The solver certainly cannot reach t_end when *)
(* the solution stops existing before t_end.  With c = (a-mu)/K < 0 and a  *)
(* non-negative initial state the total N = S+L+I obeys                    *)
(*     N' = (a-mu) S - mu L - (alpha+mu) I - c N^2  >=  |c| N^2 - M N,     *)
(* M = max(|a-mu|, alpha+mu), so if |c| N0 > M the total blows up before   *)
(* t0 + 1 / (|c| N0 - M).                                                  *)
(***************************************************************************)
RMax(x, y) == IF RLt(x, y) THEN y ELSE x

RAbs(x) == <<Abs(x[1]), x[2]>>

BlowsUp(y0, t, args) ==
    LET a == args[1]
        mu == args[3]
        alpha == args[4]
        K == args[6]
        c == RDiv(RSub(a, mu), K)
        N0 == RAdd(RAdd(y0[1], y0[2]), y0[3])
        M == RMax(RAbs(RSub(a, mu)), RAdd(alpha, mu))
        rate == RSub(RMul(RAbs(c), N0), M)
    IN  /\ RLt(c, R(0))
        /\ \A j \in 1..3 : ~RLt(y0[j], R(0))
        /\ \A j \in 1..6 : ~RLt(args[j], R(0))
        /\ RLt(R(0), rate)
        /\ RLt(R(1), RMul(rate, RSub(t[Len(t)], t[1])))

\* LSODA's istate: 2 is success, -1 is "excess work done on this call"
lsoda_istate(y0, t, args) == IF BlowsUp(y0, t, args) THEN -1 ELSE 2

\* contents an uninitialised row can have: two representatives
GarbageRows == {<<R(0), R(0), R(0)>>, <<R(1), R(1), R(1)>>}

\* the rows LSODA resolved, to first order around the initial state
ResolvedRows(y0, t, args) ==
    LET f0 == CallFunc(y0, t[1], args)
    IN  [k \in 1..Len(t) |-> [j \in 1..3 |-> RAdd(y0[j], RMul(RSub(t[k], t[1]), f0[j]))]]

\* the arrays odeint can return
odeint(y0, t, args) ==
    LET rows == ResolvedRows(y0, t, args)
    IN  IF lsoda_istate(y0, t, args) = 2
        THEN {rows}
        ELSE {[k \in 1..Len(t) |-> IF k < kf THEN rows[k] ELSE g] :
                 kf \in 2..Len(t), g \in GarbageRows}

(***************************************************************************)
(* Lines 187-197: s, l, i = sol.T and the figure.                          *)
(***************************************************************************)
Column(sol, j) == [k \in 1..Len(sol) |-> sol[k][j]]

Traces_l_i_swapped(t, sol) ==
    <<[x |-> t, y |-> Column(sol, 1), name |-> "Suscetível",
       line |-> [color |-> "#00b400", width |-> 4, dash |-> "solid"]],
      [x |-> t, y |-> Column(sol, 3), name |-> "Latente",
       line |-> [color |-> "#ff0000", width |-> 4, dash |-> "dot"]],
      [x |-> t, y |-> Column(sol, 2), name |-> "Infectado",
       line |-> [color |-> "#0000ff", width |-> 4, dash |-> "dashdot"]]>>

Traces(t, sol) ==
    LET s == Column(sol, 1)
        l == Column(sol, 2)
        i == Column(sol, 3)
    IN  <<[x |-> t, y |-> s, name |-> "Suscetível",
           line |-> [color |-> "#00b400", width |-> 4, dash |-> "solid"]],
          [x |-> t, y |-> l, name |-> "Latente",
           line |-> [color |-> "#ff0000", width |-> 4, dash |-> "dot"]],
          [x |-> t, y |-> i, name |-> "Infectado",
           line |-> [color |-> "#0000ff", width |-> 4, dash |-> "dashdot"]]>>

Layout ==
    [title |-> "Dinâmica Modelo SLI", xaxis_title |-> "Tempo (anos)",
     yaxis_title |-> "Indivíduos"]

(***************************************************************************)
(* State.                                                                  *)
(***************************************************************************)
VARIABLES
    controls,   \* the value of each slider in the browser
    queue,      \* callback requests posted and not yet picked up by a thread
    pc,         \* per request thread: its position in gera_grafico
    req,        \* per thread: the posted values of the request it serves
    locals,     \* per thread: the parameters of gera_grafico
    t_eval,     \* per thread: the time grid
    sol,        \* per thread: the array odeint returned
    istate,     \* per thread: how LSODA ended (odeint does not return it)
    chart,      \* the figure of population_chart: the last response
    history,    \* the responses sent so far
    ntriggers,  \* callback requests posted
    ncalls,     \* calls of odeint
    p_state,    \* a direct call of ode_sys: its state argument
    p_t,        \* its t argument
    p_args,     \* its six rate arguments
    p_out       \* what it returned

vars == <<controls, queue, pc, req, locals, t_eval, sol, istate, chart,
          history, ntriggers, ncalls, p_state, p_t, p_args, p_out>>

server == <<controls, queue, pc, req, locals, t_eval, sol, istate, chart,
            history, ntriggers, ncalls>>

probe == <<p_state, p_t, p_args, p_out>>

Handlers == 1..MaxHandlers

None == <<>>

InitServer ==
    /\ queue = <<>>
    /\ pc = [h \in Handlers |-> "idle"]
    /\ req = [h \in Handlers |-> None]
    /\ locals = [h \in Handlers |-> None]
    /\ t_eval = [h \in Handlers |-> None]
    /\ sol = [h \in Handlers |-> None]
    /\ istate = [h \in Handlers |-> 0]
    /\ chart = None
    /\ history = {}
    /\ ntriggers = 0
    /\ ncalls = 0

InitProbe ==
    /\ p_state = None
    /\ p_t = None
    /\ p_args = None
    /\ p_out = None

\* the page as served: every slider at its default
Init ==
    /\ controls = Defaults
    /\ InitServer
    /\ InitProbe

(***************************************************************************)
(* The browser.  Dash posts the values of all nine Inputs when the page    *)
(* loads and whenever one of them changes.                                 *)
(***************************************************************************)
PageLoad ==
    /\ ntriggers < MaxTriggers
    /\ queue' = Append(queue, Request(controls))
    /\ ntriggers' = ntriggers + 1
    /\ UNCHANGED <<controls, pc, req, locals, t_eval, sol, istate, chart,
                   history, ncalls, probe>>

SliderChange(id, v) ==
    /\ ntriggers < MaxTriggers
    /\ v # controls[id]
    /\ controls' = [controls EXCEPT ![id] = v]
    /\ queue' = Append(queue, Request(controls'))
    /\ ntriggers' = ntriggers + 1
    /\ UNCHANGED <<pc, req, locals, t_eval, sol, istate, chart, history,
                   ncalls, probe>>

(***************************************************************************)
(* The server (line 212: app.run, Flask's threaded development server):    *)
(* every request is served by a thread of its own, which calls             *)
(* gera_grafico with the posted values.  Threads are interchangeable: a    *)
(* request goes to the free thread with the lowest number.                 *)
(***************************************************************************)
FreeThread(h) == pc[h] = "idle" /\ \A g \in Handlers : g < h => pc[g] # "idle"

\* a server that abandons the requests in flight when a newer one arrives
AcceptLatestWins(h) ==
    /\ FreeThread(h)
    /\ queue # <<>>
    /\ pc' = [g \in Handlers |-> IF g = h THEN "odeint" ELSE "idle"]
    /\ req' = [g \in Handlers |-> IF g = h THEN Head(queue) ELSE None]
    /\ locals' = [g \in Handlers |-> IF g = h THEN BindParams(Head(queue)) ELSE None]
    /\ t_eval' = [g \in Handlers |->
                    IF g = h THEN linspace(t_begin, t_end, t_nsamples) ELSE None]
    /\ sol' = [g \in Handlers |-> None]
    /\ istate' = [g \in Handlers |-> 0]
    /\ queue' = Tail(queue)
    /\ UNCHANGED <<controls, chart, history, ntriggers, ncalls, probe>>

\* the call of gera_grafico and its lines 179-182
Accept(h) ==
    /\ FreeThread(h)
    /\ queue # <<>>
    /\ req' = [req EXCEPT ![h] = Head(queue)]
    /\ locals' = [locals EXCEPT ![h] = BindParams(Head(queue))]
    /\ queue' = Tail(queue)
    /\ t_eval' = [t_eval EXCEPT ![h] = linspace(t_begin, t_end, t_nsamples)]
    /\ pc' = [pc EXCEPT ![h] = "odeint"]
    /\ UNCHANGED <<controls, sol, istate, chart, history, ntriggers, ncalls, probe>>

\* a callback that keeps its results and reuses them for equal parameters
OdeintMemo(h) ==
    /\ pc[h] = "odeint"
    /\ IF \E e \in history : e.req = req[h]
       THEN /\ \E e \in history :
                 /\ e.req = req[h]
                 /\ sol' = [sol EXCEPT ![h] =
                        [k \in 1..t_nsamples |-> [j \in 1..3 |-> e.fig.data[j].y[k]]]]
                 /\ istate' = [istate EXCEPT ![h] = e.istate]
            /\ ncalls' = ncalls
       ELSE /\ \E y \in odeint(InitialState(locals[h]), t_eval[h], OdeintArgs(locals[h])) :
                 sol' = [sol EXCEPT ![h] = y]
            /\ istate' = [istate EXCEPT ![h] =
                  lsoda_istate(InitialState(locals[h]), t_eval[h], OdeintArgs(locals[h]))]
            /\ ncalls' = ncalls + 1
    /\ pc' = [pc EXCEPT ![h] = "figure"]
    /\ UNCHANGED <<controls, queue, req, locals, t_eval, chart, history,
                   ntriggers, probe>>

\* lines 183-186
Odeint(h) ==
    /\ pc[h] = "odeint"
    /\ \E y \in odeint(InitialState(locals[h]), t_eval[h], OdeintArgs(locals[h])) :
          sol' = [sol EXCEPT ![h] = y]
    /\ istate' = [istate EXCEPT ![h] =
          lsoda_istate(InitialState(locals[h]), t_eval[h], OdeintArgs(locals[h]))]
    /\ ncalls' = ncalls + 1
    /\ pc' = [pc EXCEPT ![h] = "figure"]
    /\ UNCHANGED <<controls, queue, req, locals, t_eval, chart, history,
                   ntriggers, probe>>

\* lines 187-198: the figure is the response; the frame and its locals are gone
Return(h) ==
    /\ pc[h] = "figure"
    /\ LET fig == [data |-> Traces(t_eval[h], sol[h]), layout |-> Layout]
       IN  /\ chart' = fig
           /\ history' = history \cup
                 {[req |-> req[h], fig |-> fig, istate |-> istate[h]]}
    /\ pc' = [pc EXCEPT ![h] = "idle"]
    /\ req' = [req EXCEPT ![h] = None]
    /\ locals' = [locals EXCEPT ![h] = None]
    /\ t_eval' = [t_eval EXCEPT ![h] = None]
    /\ sol' = [sol EXCEPT ![h] = None]
    /\ istate' = [istate EXCEPT ![h] = 0]
    /\ UNCHANGED <<controls, queue, ntriggers, ncalls, probe>>

Next ==
    \/ PageLoad
    \/ \E id \in SliderIds : \E v \in SliderValues(id) : SliderChange(id, v)
    \/ \E h \in Handlers : Accept(h)
    \/ \E h \in Handlers : Odeint(h)
    \/ \E h \in Handlers : Return(h)

Spec == Init /\ [][Next]_vars

(***************************************************************************)
(* The callback on a page whose sliders rest at any corner of the ranges   *)
(* or at the defaults; the page is loaded (or reloaded) there.             *)
(***************************************************************************)
InitRun ==
    /\ controls \in {CornerControls(c) : c \in Corners} \cup {Defaults}
    /\ InitServer
    /\ InitProbe

NextRun ==
    \/ PageLoad
    \/ \E h \in Handlers : Accept(h)
    \/ \E h \in Handlers : Odeint(h)
    \/ \E h \in Handlers : Return(h)

SpecRun == InitRun /\ [][NextRun]_vars

(***************************************************************************)
(* ode_sys called directly, as the integrator does while it probes the     *)
(* state space: any state (negative components included), any time, any    *)
(* rates with K # 0.                                                       *)
(***************************************************************************)
ProbeDensities == {<<-1, 1>>, R(0), <<1, 2>>, R(2)}

ProbeTimes == {R(0), R(70)}

ProbeRates ==
    {<<Sliders.a[ea], Sliders.beta[eb], Sliders.mu[em], Sliders.alpha[ex],
       Sliders.sigma[es], kk>> :
        ea \in {"min", "max"}, eb \in {"min", "value"}, em \in {"value", "max"},
        ex \in {"min", "value"}, es \in {"value", "max"},
        kk \in {Sliders.K.min, Sliders.K.value, <<-1, 2>>}}

InitOde ==
    /\ controls = Defaults
    /\ InitServer
    /\ p_state \in ProbeDensities \X ProbeDensities \X ProbeDensities
    /\ p_t \in ProbeTimes
    /\ p_args \in ProbeRates
    /\ p_out = None

CallOdeSys ==
    /\ p_out = None
    /\ p_out' = CallFunc(p_state, p_t, p_args)
    /\ UNCHANGED <<server, p_state, p_t, p_args>>

NextOde == CallOdeSys

SpecOde == InitOde /\ [][NextOde]_vars

(***************************************************************************)
(* The equations of the SLI model, by name, as the properties state them.  *)
(***************************************************************************)
EqN(S, L, I) == RAdd(RAdd(S, L), I)

EqS(S, L, I, p) ==
    RSub(RSub(RMul(RSub(p.a, p.mu), S),
              RMul(RMul(RDiv(RSub(p.a, p.mu), p.K), S), EqN(S, L, I))),
         RMul(RMul(p.beta, S), I))

EqL(S, L, I, p) ==
    RSub(RMul(RMul(p.beta, S), I),
         RMul(RAdd(RAdd(p.sigma, p.mu), RMul(RDiv(RSub(p.a, p.mu), p.K), EqN(S, L, I))), L))

EqI(S, L, I, p) ==
    RSub(RMul(p.sigma, L),
         RMul(RAdd(RAdd(p.alpha, p.mu), RMul(RDiv(RSub(p.a, p.mu), p.K), EqN(S, L, I))), I))

\* the value a request carries for the control called id
Posted(r, id) == r[CHOOSE k \in 1..Len(InputIds) : InputIds[k] = id]

PostedRates(r) ==
    [id \in {"a", "beta", "mu", "alpha", "sigma", "K"} |-> Posted(r, id)]

PostedDerivative(r) ==
    LET S == Posted(r, "s_init")
        L == Posted(r, "l_init")
        I == Posted(r, "i_init")
    IN  <<EqS(S, L, I, PostedRates(r)), EqL(S, L, I, PostedRates(r)),
          EqI(S, L, I, PostedRates(r))>>

Integrated(h) == pc[h] = "figure"

Swapped(args, i, j) ==
    [k \in 1..Len(args) |-> IF k = i THEN args[j] ELSE IF k = j THEN args[i] ELSE args[k]]

ExchangeProbes == {<<1, 2>>, R(2)} \X {<<1, 2>>, R(2)} \X {<<1, 2>>, R(2)}

(***************************************************************************)
(* C1: for every state (S, L, I), every time t and every rate set with     *)
(* K # 0, ode_sys returns (dS/dt, dL/dt, dI/dt) of the SLI equations in    *)
(* positions 0, 1, 2, reading the state as (S, L, I), and the result is    *)
(* the same at every t.                                                    *)
(***************************************************************************)
C1_OdeSysIsTheModel ==
    p_out # None =>
        LET p == [a |-> p_args[1], beta |-> p_args[2], mu |-> p_args[3],
                  alpha |-> p_args[4], sigma |-> p_args[5], K |-> p_args[6]]
        IN  /\ p_out[1] = EqS(p_state[1], p_state[2], p_state[3], p)
            /\ p_out[2] = EqL(p_state[1], p_state[2], p_state[3], p)
            /\ p_out[3] = EqI(p_state[1], p_state[2], p_state[3], p)
            /\ \A t \in ProbeTimes : CallFunc(p_state, t, p_args) = p_out

C1_Witness ==
    /\ p_out # None
    /\ p_out[2] # p_out[3]
    /\ p_state[1] = <<-1, 1>>
    /\ p_state[2] # p_state[3]
    /\ p_t = R(70)

(***************************************************************************)
(* C2: the initial state handed to the integrator is (s0, l0, i0): the     *)
(* first row of the solution holds the posted values of the s_init, l_init *)
(* and i_init controls in positions 0, 1, 2.                               *)
(***************************************************************************)
C2_InitialStateOrder ==
    \A h \in Handlers :
        /\ locals[h] # None =>
              InitialState(locals[h]) =
                  <<Posted(req[h], "s_init"), Posted(req[h], "l_init"),
                    Posted(req[h], "i_init")>>
        /\ Integrated(h) =>
              sol[h][1] = <<Posted(req[h], "s_init"), Posted(req[h], "l_init"),
                            Posted(req[h], "i_init")>>

C2_Witness ==
    \E h \in Handlers :
        /\ Integrated(h)
        /\ Posted(req[h], "l_init") # Posted(req[h], "i_init")
        /\ Posted(req[h], "s_init") # Posted(req[h], "l_init")
        /\ sol[h][1][2] = Posted(req[h], "l_init")

(***************************************************************************)
(* C3: the six rates reach the model in the order (a, beta, mu, alpha,     *)
(* sigma, K): the derivative the model computes for a request is the one   *)
(* of the equations with each rate taken from the control of the same      *)
(* name, and exchanging two slots that hold different values changes the   *)
(* derivative at some state.                                               *)
(***************************************************************************)
C3_RateBinding ==
    \A h \in Handlers :
        locals[h] # None =>
            LET args == OdeintArgs(locals[h])
            IN  /\ args = <<Posted(req[h], "a"), Posted(req[h], "beta"),
                            Posted(req[h], "mu"), Posted(req[h], "alpha"),
                            Posted(req[h], "sigma"), Posted(req[h], "K")>>
                /\ CallFunc(InitialState(locals[h]), t_begin, args) =
                       PostedDerivative(req[h])
                /\ \A i, j \in 1..6 :
                       (pc[h] = "odeint" /\ i < j /\ args[i] # args[j]) =>
                           \E y \in ExchangeProbes :
                               CallFunc(y, t_begin, Swapped(args, i, j)) #
                                   CallFunc(y, t_begin, args)

C3_Witness ==
    \E h \in Handlers :
        /\ Integrated(h)
        /\ req[h] = Request(Defaults)
        /\ \A i, j \in 1..6 :
               i # j => OdeintArgs(locals[h])[i] # OdeintArgs(locals[h])[j]

(***************************************************************************)
(* C4: a returned figure holds exactly three series over the time grid,    *)
(* named Suscetível, Latente, Infectado in this order; the first starts at *)
(* s0 and follows dS/dt, the second starts at l0 and follows dL/dt, the    *)
(* third starts at i0 and follows dI/dt (on the rows the solver resolved). *)
(***************************************************************************)
C4_SeriesBinding ==
    \A e \in history :
        LET d == e.fig.data
            y0 == <<Posted(e.req, "s_init"), Posted(e.req, "l_init"),
                    Posted(e.req, "i_init")>>
            f == PostedDerivative(e.req)
        IN  /\ Len(d) = 3
            /\ <<d[1].name, d[2].name, d[3].name>> = <<"Suscetível", "Latente", "Infectado">>
            /\ \A j \in 1..3 :
                  /\ d[j].x = d[1].x
                  /\ Len(d[j].y) = Len(d[j].x)
                  /\ d[j].y[1] = y0[j]
                  /\ e.istate = 2 =>
                        \A k \in 1..Len(d[j].x) :
                            d[j].y[k] = RAdd(y0[j], RMul(RSub(d[j].x[k], d[j].x[1]), f[j]))

C4_Witness ==
    \E e \in history :
        /\ e.istate = 2
        /\ PostedDerivative(e.req)[2] # PostedDerivative(e.req)[3]
        /\ Posted(e.req, "l_init") # Posted(e.req, "i_init")
        /\ e.fig.data[2].name = "Latente"

C6_SameParametersSameTrajectory ==
    \A e1, e2 \in history : e1.req = e2.req => e1.fig = e2.fig

(***************************************************************************)
(* C7: when the integrator cannot complete the solve the invocation fails: *)
(* no figure is returned for a trajectory the solver left unresolved.      *)
(***************************************************************************)
C7_SolverFaultIsNotReturned ==
    /\ \A e \in history : e.istate = 2
    /\ \A h \in Handlers : pc[h] = "figure" => istate[h] = 2

(***************************************************************************)
(* C8 as stated: triggers are processed strictly one at a time, no two     *)
(* invocations of the callback overlap.                                    *)
(***************************************************************************)
C8_OneAtATime == Cardinality({h \in Handlers : pc[h] # "idle"}) <= 1

StageAfter(st) == IF st = "odeint" THEN "figure" ELSE "idle"

(***************************************************************************)
(* C8 amended: every trigger is taken off the queue by one invocation of   *)
(* its own, which goes through grid, integration, figure and return for    *)
(* the parameters it was posted with and is never cancelled, restarted or  *)
(* given other parameters when a newer trigger arrives; invocations for    *)
(* different triggers may overlap.                                         *)
(***************************************************************************)
C8_NeverCancelled ==
    [][ /\ \A h \in Handlers :
              pc[h] # "idle" =>
                  \/ /\ pc'[h] = pc[h]
                     /\ req'[h] = req[h]
                     /\ locals'[h] = locals[h]
                     /\ sol'[h] = sol[h]
                  \/ /\ pc[h] = "odeint"
                     /\ pc'[h] = StageAfter(pc[h])
                     /\ req'[h] = req[h]
                     /\ locals'[h] = locals[h]
                  \/ /\ pc[h] = "figure"
                     /\ pc'[h] = StageAfter(pc[h])
                     /\ chart'.data = Traces(t_eval[h], sol[h])
        /\ \A h \in Handlers :
              (pc[h] = "idle" /\ pc'[h] # "idle") =>
                  /\ queue # <<>>
                  /\ req'[h] = Head(queue)
                  /\ queue' = Tail(queue)
      ]_vars

C8_Witness ==
    /\ pc[1] = "figure"
    /\ pc[2] = "odeint"
    /\ req[1] # req[2]

(***************************************************************************)
(* C10: every trigger performs exactly one fresh integration, also when    *)
(* its parameters equal those of an earlier trigger: odeint has been       *)
(* called once for every trigger that got past the integration step, n     *)
(* times after n triggers, and an invocation that returned keeps nothing.  *)
(***************************************************************************)
C10_OneIntegrationPerTrigger ==
    /\ ncalls = ntriggers - Len(queue)
                  - Cardinality({h \in Handlers : pc[h] = "odeint"})
    /\ (queue = <<>> /\ \A h \in Handlers : pc[h] = "idle") => ncalls = ntriggers
    /\ \A h \in Handlers :
          pc[h] = "idle" =>
              /\ sol[h] = None
              /\ t_eval[h] = None
              /\ locals[h] = None

C10_Witness ==
    /\ ntriggers = 2
    /\ ncalls = 2
    /\ queue = <<>>
    /\ \A h \in Handlers : pc[h] = "idle"
    /\ Cardinality(history) = 1

====
